---- MODULE Spec2Model ----
(***************************************************************************)
(* Model of ArchWiki/optimizer.py: class Optimizer, which rewrites one     *)
(* downloaded wiki page (an lxml element tree) for offline browsing.       *)
(*                                                                         *)
(* Strings the code computes with (href, src, relbase, titles) are         *)
(* sequences of one-character strings, so that slicing, prefix tests, the  *)
(* regular expression and percent-decoding are modelled by what they do.   *)
(* An absent attribute (Python None) is the one-element sequence None.     *)
(***************************************************************************)
EXTENDS Naturals, Sequences, FiniteSets, TLC

VARIABLES
    heap,          \* heap[d]: the element tree parsed for call d (the object self.root may refer to)
    self_relbase,  \* Optimizer.relbase (instance attribute, shared by all calls)
    self_root,     \* Optimizer.root: 0 before any parse, else the index of a tree in heap
    pc,            \* pc[c]: position of call c inside optimize()
    pass,          \* pass[c]: 1 in the first run of the five steps, 2 in a second run
    fout,          \* fout[c]: output path of call c, as path components below the base directory
    redirects,     \* the wiki's redirect table (read by resolve_redirect)
    orig,          \* orig[d]: tree d as parsed (history)
    prev,          \* prev[c]: the tree call c worked on, as it was before c's last step (history)
    first,         \* first[c]: the tree as the first run of the five steps left it (history)
    ran,           \* ran[c]: the steps call c has started, in order (history)
    failedAt,      \* failedAt[c]: the step whose exception ended call c, "" if none
    writers,       \* writers[d]: the calls that have mutated tree d (history)
    dirs,          \* directories that exist below the base directory
    files          \* files written: a set of <<path, serialized tree>>

vars == <<heap, self_relbase, self_root, pc, pass, fout, redirects, orig, prev,
          first, ran, failedAt, writers, dirs, files>>

-----------------------------------------------------------------------------
(* Bounds of the model                                                     *)

MaxHead == 2          \* children of <head> in the input
MaxFooterItems == 3   \* <li> children of #footer-info in the input
MaxTail == 2          \* pieces that follow the path prefix of a generated href
MaxDepth == 1         \* directories between the base directory and the output file

-----------------------------------------------------------------------------
(* Strings                                                                 *)

None == <<"None">>

Take(s, n) == SubSeq(s, 1, IF n < Len(s) THEN n ELSE Len(s))

Drop(s, n) == SubSeq(s, n + 1, Len(s))

StartsWith(s, p) == Len(s) >= Len(p) /\ SubSeq(s, 1, Len(p)) = p

EndsWith(s, p) == Len(s) >= Len(p) /\ SubSeq(s, Len(s) - Len(p) + 1, Len(s)) = p

RECURSIVE Concat(_)
Concat(ss) ==
    IF ss = <<>> THEN <<>> ELSE Head(ss) \o Concat(Tail(ss))

\* positions of character ch in s
Positions(s, ch) == {i \in 1..Len(s) : s[i] = ch}

Min(S) == CHOOSE x \in S : \A y \in S : x <= y

Max(S) == CHOOSE x \in S : \A y \in S : x >= y

\* 'https://wiki.archlinux.org/' and 'http://wiki.archlinux.org/'
HttpsSite ==
    <<"h","t","t","p","s",":","/","/","w","i","k","i",".","a","r","c","h",
      "l","i","n","u","x",".","o","r","g","/">>

HttpSite ==
    <<"h","t","t","p",":","/","/","w","i","k","i",".","a","r","c","h",
      "l","i","n","u","x",".","o","r","g","/">>

HttpsCut == 26

HttpCut == 25

CssName ==
    <<"A","r","c","h","W","i","k","i","O","f","f","l","i","n","e",".","c","s","s">>

FilePrefix == <<"F","i","l","e","_","_">>

ImagesPrefix == <<"/","i","m","a","g","e","s","/">>

HtmlSuffix == <<".","h","t","m","l">>

HexDigits ==
    {"0","1","2","3","4","5","6","7","8","9","a","b","c","d","e","f",
     "A","B","C","D","E","F"}

\* the character a %XX escape stands for; escapes of characters the model's
\* documents never contain decode to "?"
HexChar(h, l) ==
    CASE h = "2" /\ l = "0" -> " "
      [] h = "2" /\ l = "3" -> "#"
      [] h = "2" /\ l = "5" -> "%"
      [] h = "2" /\ l \in {"f", "F"} -> "/"
      [] h = "6" /\ l = "1" -> "a"
      [] OTHER -> "?"

\* urllib.parse.unquote: every %XX with two hex digits is replaced by its
\* character, anything else is kept
RECURSIVE Unquote(_)
Unquote(s) ==
    IF s = <<>> THEN <<>>
    ELSE IF s[1] = "%" /\ Len(s) >= 3 /\ s[2] \in HexDigits /\ s[3] \in HexDigits
         THEN <<HexChar(s[2], s[3])>> \o Unquote(Drop(s, 3))
         ELSE <<s[1]>> \o Unquote(Tail(s))

\* str.replace(" ", "_")
ReplaceSpaces(s) == [i \in 1..Len(s) |-> IF s[i] = " " THEN "_" ELSE s[i]]

\* os.path.join(a, b) for one relative or absolute b
PathJoin(a, b) ==
    IF StartsWith(b, <<"/">>) THEN b
    ELSE IF a = <<>> \/ EndsWith(a, <<"/">>) THEN a \o b
    ELSE a \o <<"/">> \o b

\* os.path.split(p)[1]: what follows the last '/'
Basename(p) ==
    IF Positions(p, "/") = {} THEN p ELSE Drop(p, Max(Positions(p, "/")))

\* os.path.relpath(base_directory, os.path.split(fout)[0]) where fout lies
\* Len(path) - 1 directories below the base directory: "." or "../.." ...
RECURSIVE DotDots(_)
DotDots(n) ==
    IF n = 0 THEN <<>>
    ELSE IF n = 1 THEN <<".", ".">>
    ELSE <<".", ".", "/">> \o DotDots(n - 1)

RelBase(path) ==
    IF Len(path) <= 1 THEN <<".">> ELSE DotDots(Len(path) - 1)

DirName(path) == SubSeq(path, 1, Len(path) - 1)

-----------------------------------------------------------------------------
(* Title Resolver and Path Mapper: self.wiki, an ArchWiki instance         *)

\* wiki.resolve_redirect(title): the redirect target, else the title itself
resolve_redirect(title) ==
    IF title \in DOMAIN redirects THEN redirects[title] ELSE title

\* wiki.get_local_filename(title, basepath): the page's file below basepath
get_local_filename(title, basepath) ==
    PathJoin(basepath, title \o HtmlSuffix)

-----------------------------------------------------------------------------
(* update_links: the new value of one href                                 *)

\* lines 110-113: drop the site's origin, keeping the '/' that follows it
StripSite(href) ==
    IF StartsWith(href, HttpsSite) THEN Drop(href, HttpsCut)
    ELSE IF StartsWith(href, HttpSite) THEN Drop(href, HttpCut)
    ELSE href

NoNewline(s) == \A i \in 1..Len(s) : s[i] # "\n"

\* '$' matches at the end and before one final newline
AtEnd(s) == s = <<>> \/ s = <<"\n">>

WithoutFinalNewline(s) ==
    IF s # <<>> /\ s[Len(s)] = "\n" THEN SubSeq(s, 1, Len(s) - 1) ELSE s

\* '/index.php/' as the regular expression reads it: the unescaped '.'
\* stands for any character but a newline
IndexPhpPrefix(s) ==
    /\ Len(s) >= 11
    /\ SubSeq(s, 1, 6) = <<"/","i","n","d","e","x">>
    /\ s[7] # "\n"
    /\ SubSeq(s, 8, 11) = <<"p","h","p","/">>

\* the tail '(?:#(.+))?$' tried with its group: '#', one or more characters,
\* the end
FragmentGroup(rem) ==
    /\ Len(rem) >= 2
    /\ rem[1] = "#"
    /\ WithoutFinalNewline(Tail(rem)) # <<>>
    /\ NoNewline(WithoutFinalNewline(Tail(rem)))

\* re.match("^/index.php/(.+?)(?:#(.+))?$", href): group 1 is the shortest
\* non-empty title after which the rest matches; group 2 is None when the
\* optional group took nothing
MatchInternal(s) ==
    LET rest == Drop(s, 11)
        Fits(k) == /\ NoNewline(Take(rest, k))
                   /\ \/ FragmentGroup(Drop(rest, k))
                      \/ AtEnd(Drop(rest, k))
        ks == {k \in 1..Len(rest) : Fits(k)}
    IN  IF ~IndexPhpPrefix(s) \/ ks = {}
        THEN [ok |-> FALSE, title |-> <<>>, fragment |-> None]
        ELSE LET k == Min(ks)
                 rem == Drop(rest, k)
             IN  [ok |-> TRUE,
                  title |-> Take(rest, k),
                  fragment |-> IF FragmentGroup(rem)
                               THEN WithoutFinalNewline(Tail(rem))
                               ELSE None]

\* lines 118-123: title.split("#", maxsplit=1); a result without '#' raises
\* ValueError in the unpacking and leaves title as it was
SplitRedirect(resolved) ==
    IF Positions(resolved, "#") = {}
    THEN [title |-> resolved, fragment |-> <<>>]
    ELSE LET i == Min(Positions(resolved, "#"))
         IN  [title |-> Take(resolved, i - 1),
              fragment |-> ReplaceSpaces(Drop(resolved, i))]

\* a variant of ChooseFragment in which the redirect's fragment comes first
ChooseFragmentRedirectFirst(explicit, redirected) ==
    IF redirected # <<>> THEN redirected
    ELSE IF explicit # None THEN explicit ELSE <<>>

\* lines 124-126: an explicit fragment overrides the redirect's
ChooseFragment(explicit, redirected) ==
    IF explicit # None /\ explicit # <<>> THEN explicit ELSE redirected

\* lines 105-130 for one anchor: the value the href attribute has afterwards
RewriteHref(value, relbase) ==
    IF value = None THEN None
    ELSE LET href == StripSite(Unquote(value))
             m == MatchInternal(href)
         IN  IF ~m.ok THEN value
             ELSE LET r == SplitRedirect(resolve_redirect(m.title))
                      fragment == ChooseFragment(m.fragment, r.fragment)
                      local == get_local_filename(r.title, relbase)
                  IN  IF fragment # <<>> THEN local \o <<"#">> \o fragment
                      ELSE local

\* lines 133-136 for one image: the value the src attribute has afterwards
RewriteSrc(value, relbase) ==
    IF value # None /\ value # <<>> /\ StartsWith(value, ImagesPrefix)
    THEN PathJoin(relbase, FilePrefix \o Basename(value))
    ELSE value

-----------------------------------------------------------------------------
(* The element tree (lxml): a tree is a sequence of nodes, node 1 the root *)
(* element; a node holds its attributes, the text that follows it (lxml    *)
(* keeps that text in the node's tail) and its children in order. A node   *)
(* no longer reachable from the root is a detached Python object.          *)

Root == 1

NodeIds(doc) == 1..Len(doc)

RECURSIVE Preorder(_, _)
Preorder(doc, n) ==
    <<n>> \o Concat([i \in 1..Len(doc[n].kids) |-> Preorder(doc, doc[n].kids[i])])

\* the nodes at and below n
Subtree(doc, n) ==
    LET order == Preorder(doc, n)
    IN  {order[i] : i \in 1..Len(order)}

\* document order of the nodes below the root, the root included
DocOrder(doc) == Preorder(doc, Root)

InDoc(doc) == Subtree(doc, Root)

\* e.getparent(): 0 stands for None
Parent(doc, n) ==
    IF \E p \in NodeIds(doc) : \E i \in 1..Len(doc[p].kids) : doc[p].kids[i] = n
    THEN CHOOSE p \in NodeIds(doc) : \E i \in 1..Len(doc[p].kids) : doc[p].kids[i] = n
    ELSE 0

IsElement(doc, n) == doc[n].kind = "elem"

\* root.cssselect / root.xpath: the elements among `matching`, in document order
Select(doc, matching) ==
    LET order == DocOrder(doc)
    IN  SelectSeq(order, LAMBDA n : IsElement(doc, n) /\ n \in matching)

Without(seq, n) == SelectSeq(seq, LAMBDA x : x # n)

\* parent.remove(e): e leaves its parent and takes its tail text with it
Remove(doc, e) ==
    LET p == Parent(doc, e)
    IN  IF p = 0 THEN doc
        ELSE [doc EXCEPT ![p].kids = Without(@, e)]

\* n is e or lies below e
IsAncestorOrSame(doc, e, n) == n \in Subtree(doc, e)

\* parent.insert(index, e): e, with its tail, leaves its old place and goes
\* before the child that now has that index, or to the end when there is none
Insert(doc, p, index, e) ==
    LET kids == doc[p].kids
    IN  IF index + 1 > Len(kids)
        THEN LET d == Remove(doc, e)
             IN  [d EXCEPT ![p].kids = Append(@, e)]
        ELSE LET before == kids[index + 1]
             IN  IF before = e THEN doc
                 ELSE LET d == Remove(doc, e)
                          ks == d[p].kids
                          at == CHOOSE i \in 1..Len(ks) : ks[i] = before
                      IN  [d EXCEPT ![p].kids =
                               SubSeq(ks, 1, at - 1) \o <<e>> \o SubSeq(ks, at, Len(ks))]

\* lxml.etree.strip_elements(root, ...): every node of `matching` below the root
\* goes, with its subtree and its tail text
StripElements(doc, matching) ==
    LET live == InDoc(doc)
    IN  [n \in NodeIds(doc) |->
            IF n \in live
            THEN [doc[n] EXCEPT !.kids = SelectSeq(@, LAMBDA k : k \notin matching)]
            ELSE doc[n]]

\* lxml.etree.Element(tag)
NewElement(tag) ==
    [kind |-> "elem", tag |-> tag, id |-> "", class |-> {}, rel |-> "",
     href |-> None, src |-> None, style |-> "", tail |-> "", kids |-> <<>>]

-----------------------------------------------------------------------------
(* The five steps. Each yields the tree it leaves and whether it ended     *)
(* normally (ok) or with an exception; a tree altered before the exception *)
(* stays altered.                                                          *)

ChromeIds == {"archnavbar", "mw-page-base", "mw-head-base", "mw-navigation"}

HasId(doc, name) == Select(doc, {n \in NodeIds(doc) : doc[n].id = name})

\* for e in ...: e.getparent().remove(e); getparent() of the root is None
RECURSIVE RemoveEach(_, _)
RemoveEach(doc, es) ==
    IF es = <<>> THEN [ok |-> TRUE, doc |-> doc]
    ELSE IF Parent(doc, Head(es)) = 0 THEN [ok |-> FALSE, doc |-> doc]
    ELSE RemoveEach(Remove(doc, Head(es)), Tail(es))

\* lines 62-65
MoveLanguages(doc) ==
    LET bodyContent == HasId(doc, "bodyContent")
        pLang == HasId(doc, "p-lang")
    IN  IF pLang # <<>> /\ bodyContent # <<>>
        THEN IF IsAncestorOrSame(doc, pLang[1], bodyContent[1])
             THEN [ok |-> FALSE, doc |-> doc]
             ELSE [ok |-> TRUE, doc |-> Insert(doc, bodyContent[1], 0, pLang[1])]
        ELSE [ok |-> TRUE, doc |-> doc]

\* a variant of RemoveChrome that removes the first match only
RemoveFirstChrome(doc) ==
    LET es == Select(doc, {n \in NodeIds(doc) : doc[n].id \in ChromeIds})
    IN  RemoveEach(doc, IF es = <<>> THEN es ELSE <<es[1]>>)

\* lines 67-68
RemoveChrome(doc) ==
    RemoveEach(doc, Select(doc, {n \in NodeIds(doc) : doc[n].id \in ChromeIds}))

\* line 71
StripComments(doc) ==
    StripElements(doc, {n \in NodeIds(doc) : doc[n].kind = "comment"})

\* line 74
StripScripts(doc) ==
    StripElements(doc, {n \in NodeIds(doc) : IsElement(doc, n) /\ doc[n].tag = "script"})

\* a variant of strip_page that deletes the chrome before it moves the
\* language box
strip_page_chrome_first(doc) ==
    LET bare == RemoveChrome(doc)
        moved == MoveLanguages(bare.doc)
    IN  IF ~bare.ok THEN bare
        ELSE IF ~moved.ok THEN moved
        ELSE [ok |-> TRUE, doc |-> StripScripts(StripComments(moved.doc))]

strip_page(doc) ==
    LET moved == MoveLanguages(doc)
        bare == RemoveChrome(moved.doc)
    IN  IF ~moved.ok THEN moved
        ELSE IF ~bare.ok THEN bare
        ELSE [ok |-> TRUE, doc |-> StripScripts(StripComments(bare.doc))]

fix_layout(doc) ==
    LET live == InDoc(doc)
    IN  [ok |-> TRUE,
         doc |-> [n \in NodeIds(doc) |->
                    IF n \in live /\ IsElement(doc, n) /\ doc[n].id \in {"content", "footer"}
                    THEN [doc[n] EXCEPT !.style = "margin: 0"]
                    ELSE doc[n]]]

\* root.xpath('//head/link[@rel="stylesheet"]')
StylesheetLinks(doc) ==
    Select(doc, {n \in NodeIds(doc) : /\ doc[n].tag = "link"
                                        /\ doc[n].rel = "stylesheet"
                                        /\ Parent(doc, n) # 0
                                        /\ doc[Parent(doc, n)].tag = "head"})

\* a variant of replace_css_links that leaves the other links in place
replace_css_links_keep_rest(doc, relbase) ==
    LET links == StylesheetLinks(doc)
    IN  IF links = <<>> THEN [ok |-> FALSE, doc |-> doc]
        ELSE [ok |-> TRUE,
              doc |-> [doc EXCEPT ![links[1]].href = PathJoin(relbase, CssName)]]

\* a variant of replace_css_links that skips a page without stylesheet link
replace_css_links_skip_empty(doc, relbase) ==
    LET links == StylesheetLinks(doc)
    IN  IF links = <<>> THEN [ok |-> TRUE, doc |-> doc]
        ELSE RemoveEach([doc EXCEPT ![links[1]].href = PathJoin(relbase, CssName)],
                        Tail(links))

replace_css_links(doc, relbase) ==
    LET links == StylesheetLinks(doc)
    IN  IF links = <<>> THEN [ok |-> FALSE, doc |-> doc]
        ELSE RemoveEach([doc EXCEPT ![links[1]].href = PathJoin(relbase, CssName)],
                        Tail(links))

update_links(doc, relbase) ==
    LET live == InDoc(doc)
    IN  [ok |-> TRUE,
         doc |-> [n \in NodeIds(doc) |->
                    IF n \in live /\ IsElement(doc, n) /\ doc[n].tag = "a"
                    THEN [doc[n] EXCEPT !.href = RewriteHref(@, relbase)]
                    ELSE IF n \in live /\ IsElement(doc, n) /\ doc[n].tag = "img"
                    THEN [doc[n] EXCEPT !.src = RewriteSrc(@, relbase)]
                    ELSE doc[n]]]

\* a variant of MoveFooter that puts the line break one place earlier
MoveFooterBreakEarlier(doc, printfooter) ==
    LET d1 == [doc EXCEPT ![printfooter].class = {}, ![printfooter].tag = "li"]
        lists == HasId(d1, "footer-info")
    IN  IF lists = <<>> \/ IsAncestorOrSame(d1, printfooter, lists[1])
        THEN [ok |-> FALSE, doc |-> d1]
        ELSE LET d2 == Append(Insert(d1, lists[1], 0, printfooter), NewElement("br"))
             IN  [ok |-> TRUE, doc |-> Insert(d2, lists[1], 2, Len(d2))]

\* a variant of MoveFooter that leaves the block its tag and class
MoveFooterKeepDiv(doc, printfooter) ==
    LET lists == HasId(doc, "footer-info")
    IN  IF lists = <<>> \/ IsAncestorOrSame(doc, printfooter, lists[1])
        THEN [ok |-> FALSE, doc |-> doc]
        ELSE LET d2 == Append(Insert(doc, lists[1], 0, printfooter), NewElement("br"))
             IN  [ok |-> TRUE, doc |-> Insert(d2, lists[1], 3, Len(d2))]

\* lines 145-150 for one print footer
MoveFooter(doc, printfooter) ==
    LET d1 == [doc EXCEPT ![printfooter].class = {}, ![printfooter].tag = "li"]
        lists == HasId(d1, "footer-info")
    IN  IF lists = <<>> \/ IsAncestorOrSame(d1, printfooter, lists[1])
        THEN [ok |-> FALSE, doc |-> d1]
        ELSE LET d2 == Append(Insert(d1, lists[1], 0, printfooter), NewElement("br"))
             IN  [ok |-> TRUE, doc |-> Insert(d2, lists[1], 3, Len(d2))]

RECURSIVE MoveFooters(_, _)
MoveFooters(doc, printfooters) ==
    IF printfooters = <<>> THEN [ok |-> TRUE, doc |-> doc]
    ELSE LET r == MoveFooter(doc, Head(printfooters))
         IN  IF r.ok THEN MoveFooters(r.doc, Tail(printfooters)) ELSE r

fix_footer(doc) ==
    MoveFooters(doc, Select(doc, {n \in NodeIds(doc) : /\ doc[n].tag = "div"
                                                         /\ "printfooter" \in doc[n].class}))

\* lxml.etree.tostring(root, method="html"): the nodes below the root in
\* document order, each element's attributes, end and tail included
RECURSIVE Serialize(_, _)
Serialize(doc, n) ==
    <<[ev |-> "start", node |-> [doc[n] EXCEPT !.kids = <<>>, !.tail = ""]]>>
    \o Concat([i \in 1..Len(doc[n].kids) |-> Serialize(doc, doc[n].kids[i])])
    \o <<[ev |-> "end", node |-> [NewElement(doc[n].tag) EXCEPT !.tail = doc[n].tail]]>>

-----------------------------------------------------------------------------
(* Input documents: what lxml.html.parse may hand to optimize(). A page is *)
(* described by its nodes in document order, each naming its parent.       *)

El(tag, id) == [NewElement(tag) EXCEPT !.id = id]

Proto(name, par, node) == [name |-> name, par |-> par, node |-> node]

\* the protos whose chain of parents reaches the root
RECURSIVE Alive(_, _, _)
Alive(protos, names, k) ==
    IF k = 0 THEN names
    ELSE Alive(protos,
               names \cup {protos[i].name : i \in {j \in 1..Len(protos) : protos[j].par \in names}},
               k - 1)

BuildTree(all) ==
    LET live == Alive(all, {<<"html">>}, Len(all))
        protos == SelectSeq(all, LAMBDA q : q.name \in live)
        Index == [j \in 1..Len(protos) |-> j]
    IN  [i \in 1..Len(protos) |->
            [protos[i].node EXCEPT
                !.kids = SelectSeq(Index, LAMBDA j : protos[j].par = protos[i].name)]]

IndexPhp == <<"/","i","n","d","e","x",".","p","h","p","/">>

HeadKinds == {"css", "icon", "script", "comment"}

HeadItem(kind, i) ==
    CASE kind = "css" ->
           [El("link", "") EXCEPT !.rel = "stylesheet", !.href = <<"/","c">>, !.tail = "t"]
      [] kind = "icon" ->
           [El("link", "") EXCEPT !.rel = "icon", !.href = <<"/","i">>]
      [] kind = "script" -> [El("script", "") EXCEPT !.tail = "t"]
      [] OTHER -> [NewElement("") EXCEPT !.kind = "comment", !.tail = "t"]

\* one page: cfg says what the template holds and where
Page(cfg) ==
    LET hs == cfg.head
        opt(present, par) == IF present THEN par ELSE <<"none">>
        heads == [i \in 1..Len(hs) |-> Proto(<<"h", i>>, <<"head">>, HeadItem(hs[i], i))]
        items == [i \in 1..cfg.items |-> Proto(<<"li", i>>, <<"info">>, El("li", ""))]
    IN  BuildTree(
          << Proto(<<"html">>, <<"">>, El("html", "")),
             Proto(<<"head">>, <<"html">>, El("head", "")) >>
          \o heads \o
          << Proto(<<"body">>, <<"html">>, El("body", "")),
             Proto(<<"navbar">>, opt(cfg.navbar # "", <<"body">>),
                   [El("div", cfg.navbar) EXCEPT !.tail = "t"]),
             Proto(<<"nav">>, opt(cfg.nav, <<"body">>),
                   [El("div", "mw-navigation") EXCEPT !.tail = "t"]),
             Proto(<<"inner">>, opt(cfg.inner, <<"nav">>),
                   [El("div", "mw-head-base") EXCEPT !.tail = "t"]),
             Proto(<<"content">>, <<"body">>, El("div", "content")),
             Proto(<<"bc">>, <<cfg.bc>>, El("div", "bodyContent")),
             Proto(<<"a">>, <<"bc">>,
                   [El("a", "") EXCEPT !.href = cfg.href, !.tail = "t"]),
             Proto(<<"img">>, <<"bc">>, [El("img", "") EXCEPT !.src = cfg.src]),
             Proto(<<"plang">>, <<cfg.plang>>,
                   [El("div", "p-lang") EXCEPT !.tail = "t"]),
             Proto(<<"la">>, <<"plang">>,
                   [El("a", "") EXCEPT !.href = HttpsSite \o Tail(IndexPhp) \o <<"a">>]),
             Proto(<<"com">>, <<cfg.com>>,
                   [NewElement("") EXCEPT !.kind = "comment", !.tail = "t"]),
             Proto(<<"scr">>, <<cfg.scr>>, [El("script", "") EXCEPT !.tail = "t"]),
             Proto(<<"footer">>, <<"body">>, El("div", "footer")),
             Proto(<<"info">>, opt(cfg.info, <<"footer">>), El("ul", "footer-info")) >>
          \o (IF cfg.items >= 1 THEN <<items[1]>> ELSE <<>>) \o
          << Proto(<<"pf">>, <<cfg.pf>>,
                   [El("div", "") EXCEPT !.class = {"printfooter"}, !.tail = "t"]) >>
          \o (IF cfg.items >= 2 THEN SubSeq(items, 2, Len(items)) ELSE <<>>))

\* the usual page: one of everything, two stylesheets
Usual ==
    [head |-> <<"css", "css">>, navbar |-> "archnavbar", nav |-> TRUE, inner |-> TRUE,
     bc |-> "content", plang |-> "nav", com |-> "body", scr |-> "body",
     info |-> TRUE, items |-> 2, pf |-> "content",
     href |-> IndexPhp \o <<"a">>, src |-> ImagesPrefix \o <<"x">>]

RECURSIVE SeqsUpTo(_, _)
SeqsUpTo(S, n) ==
    IF n = 0 THEN {<<>>}
    ELSE SeqsUpTo(S, n - 1) \cup
         {Append(q, x) : q \in {r \in SeqsUpTo(S, n - 1) : Len(r) = n - 1}, x \in S}

\* pages that differ in the chrome, the language box, the comments and scripts
BodyCfgs ==
    {[Usual EXCEPT !.navbar = nb, !.nav = nv, !.inner = inr, !.bc = bc,
                   !.plang = pl, !.com = cm, !.scr = sc] :
        nb \in {"", "archnavbar", "mw-page-base"}, nv \in BOOLEAN, inr \in BOOLEAN,
        bc \in {"content", "nav", "none"},
        pl \in {"body", "nav", "inner", "bc", "content", "none"},
        cm \in {"body", "bc", "plang", "none"}, sc \in {"body", "bc", "none"}}

\* pages that differ in the children of <head>
HeadCfgs == {[Usual EXCEPT !.head = hs] : hs \in SeqsUpTo(HeadKinds, MaxHead)}

\* pages that differ in the footer
FooterCfgs ==
    {[Usual EXCEPT !.items = n, !.pf = pf, !.info = info] :
        n \in 0..MaxFooterItems, pf \in {"content", "info", "none"}, info \in BOOLEAN}

\* output paths: the file lies 0..MaxDepth directories below the base directory
Fouts == {[i \in 1..(d + 1) |-> IF i = d + 1 THEN "p.html" ELSE "sub"] : d \in 0..MaxDepth}

\* hrefs: a beginning followed by up to MaxTail pieces
Pieces == {<<"a">>, <<"#">>, <<" ">>, <<"%","2","3">>}

Tails == {Concat(q) : q \in SeqsUpTo(Pieces, MaxTail)}

Starts ==
    { IndexPhp,
      IndexPhp \o <<"a">>,
      HttpsSite \o Tail(IndexPhp) \o <<"a">>,
      HttpSite \o Tail(IndexPhp) \o <<"a">>,
      <<"/","i","n","d","e","x","_","p","h","p","/","a">>,
      <<"h","t","t","p","s",":","/","/","x">> \o IndexPhp \o <<"a">>,
      HttpsSite \o <<"a">>,
      <<"m","a","i","l","t","o",":","a">>,
      <<>> }

Hrefs == {None} \cup {st \o tl : st \in Starts, tl \in Tails}

Srcs ==
    { None, <<>>, <<"x">>, ImagesPrefix, ImagesPrefix \o <<"x">>,
      ImagesPrefix \o <<"d","/","x">>, <<"/","i","m","a","g","e","/","x">>,
      <<"h","t","t","p","s",":","/","/","x">> \o ImagesPrefix \o <<"x">> }

\* pages that differ in one link
LinkCfgs ==
    {[Usual EXCEPT !.href = h] : h \in Hrefs} \cup {[Usual EXCEPT !.src = sr] : sr \in Srcs}

\* redirect tables: the title "a" redirects nowhere, to a page, to a section
RedirectMaps ==
    { <<>>,
      [t \in {<<"a">>} |-> <<"n">>],
      [t \in {<<"a">>} |-> <<"n","#","s"," ","s">>],
      [t \in {<<"a">>} |-> <<"n","#">>] }

-----------------------------------------------------------------------------
(* optimize(): one action per statement group, for call c                  *)

Calls == {1, 2}

StepNames == <<"strip_page", "fix_layout", "replace_css_links", "update_links", "fix_footer">>

Prefixes(path) == {SubSeq(path, 1, k) : k \in 0..Len(path)}

InitWith(doc1, doc2, fout1, fout2, map) ==
    /\ heap = <<doc1, doc2>>
    /\ orig = <<doc1, doc2>>
    /\ prev = <<doc1, doc2>>
    /\ first = <<doc1, doc2>>
    /\ self_relbase = None
    /\ self_root = 0
    /\ pc = <<"idle", "idle">>
    /\ pass = <<1, 1>>
    /\ fout = <<fout1, fout2>>
    /\ redirects = map
    /\ ran = << <<>>, <<>> >>
    /\ failedAt = <<"", "">>
    /\ writers = <<{}, {}>>
    /\ dirs = {}
    /\ files = <<>>

\* line 31
SetRelbase(c) ==
    /\ pc[c] = "idle"
    /\ self_relbase' = RelBase(fout[c])
    /\ pc' = [pc EXCEPT ![c] = "parse"]
    /\ UNCHANGED <<heap, self_root, pass, fout, redirects, orig, prev, first, ran,
                   failedAt, writers, dirs, files>>

\* lines 34-35: the tree parsed from fin is tree c
Parse(c) ==
    /\ pc[c] = "parse"
    /\ self_root' = c
    /\ pc' = [pc EXCEPT ![c] = "strip_page"]
    /\ UNCHANGED <<heap, self_relbase, pass, fout, redirects, orig, prev, first, ran,
                   failedAt, writers, dirs, files>>

\* one of lines 38-42: the step works on the tree self.root refers to
Step(c, name, result, next) ==
    /\ pc[c] = name
    /\ self_root # 0
    /\ LET r == result
       IN  /\ heap' = [heap EXCEPT ![self_root] = r.doc]
           /\ writers' = [writers EXCEPT ![self_root] =
                             IF r.doc # heap[self_root] THEN @ \cup {c} ELSE @]
           /\ pc' = [pc EXCEPT ![c] = IF r.ok THEN next ELSE "failed"]
           /\ failedAt' = [failedAt EXCEPT ![c] = IF r.ok THEN @ ELSE name]
    /\ prev' = [prev EXCEPT ![c] = heap[self_root]]
    /\ ran' = [ran EXCEPT ![c] = Append(@, name)]
    /\ UNCHANGED <<self_relbase, self_root, pass, fout, redirects, orig, first, dirs, files>>

StripPage(c) ==
    Step(c, "strip_page", strip_page(heap[self_root]), "fix_layout")

FixLayout(c) ==
    Step(c, "fix_layout", fix_layout(heap[self_root]), "replace_css_links")

ReplaceCssLinks(c) ==
    Step(c, "replace_css_links", replace_css_links(heap[self_root], self_relbase),
         "update_links")

UpdateLinks(c) ==
    Step(c, "update_links", update_links(heap[self_root], self_relbase), "fix_footer")

FixFooter(c) ==
    Step(c, "fix_footer", fix_footer(heap[self_root]),
         IF pass[c] = 1 THEN "makedirs" ELSE "done")

\* lines 45-48: os.makedirs, an existing directory is no error
MakeDirs(c) ==
    /\ pc[c] = "makedirs"
    /\ dirs' = dirs \cup Prefixes(DirName(fout[c]))
    /\ pc' = [pc EXCEPT ![c] = "write"]
    /\ UNCHANGED <<heap, self_relbase, self_root, pass, fout, redirects, orig, prev,
                   first, ran, failedAt, writers, files>>

\* lines 51-57
WriteOutput(c) ==
    /\ pc[c] = "write"
    /\ files' = (fout[c] :> Serialize(heap[self_root], Root)) @@ files
    /\ first' = [first EXCEPT ![c] = heap[self_root]]
    /\ pc' = [pc EXCEPT ![c] = "done"]
    /\ UNCHANGED <<heap, self_relbase, self_root, pass, fout, redirects, orig, prev,
                   ran, failedAt, writers, dirs>>

\* the five steps are run once more over the tree they have transformed
RunAgain(c) ==
    /\ pc[c] = "done"
    /\ pass[c] = 1
    /\ pass' = [pass EXCEPT ![c] = 2]
    /\ pc' = [pc EXCEPT ![c] = "strip_page"]
    /\ UNCHANGED <<heap, self_relbase, self_root, fout, redirects, orig, prev, first,
                   ran, failedAt, writers, dirs, files>>

Call(c) ==
    \/ SetRelbase(c)
    \/ Parse(c)
    \/ StripPage(c)
    \/ FixLayout(c)
    \/ ReplaceCssLinks(c)
    \/ UpdateLinks(c)
    \/ FixFooter(c)
    \/ MakeDirs(c)
    \/ WriteOutput(c)

\* one thread: a single call, whose five steps may be run a second time
Init ==
    \E cfg \in BodyCfgs \cup HeadCfgs \cup FooterCfgs :
        \E f \in IF cfg \in HeadCfgs THEN Fouts ELSE {<<"p.html">>} :
            InitWith(Page(cfg), Page(Usual), f, f, <<>>)

Next == Call(1) \/ RunAgain(1)

Spec == Init /\ [][Next]_vars

\* one thread, pages that differ in one link, every redirect table
InitLinks ==
    \E cfg \in LinkCfgs, f \in Fouts, map \in RedirectMaps :
        InitWith(Page(cfg), Page(Usual), f, f, map)

SpecLinks == InitLinks /\ [][Next]_vars

\* two threads share one Optimizer; their output files lie at different depths
InitShared ==
    \E cfg1 \in {Usual, [Usual EXCEPT !.head = <<"css">>]},
       cfg2 \in {Usual, [Usual EXCEPT !.plang = "none"]} :
        InitWith(Page(cfg1), Page(cfg2), <<"p.html">>, <<"sub", "q.html">>,
                 [t \in {<<"a">>} |-> <<"n">>])

NextShared == \E c \in Calls : Call(c)

SpecShared == InitShared /\ [][NextShared]_vars

-----------------------------------------------------------------------------
(* Properties. The single-threaded specifications run call 1 only.         *)

Cur == heap[1]

Before == prev[1]

OwnRelbase(c) == RelBase(fout[c])

Last(seq) == seq[Len(seq)]

\* call 1 has just completed step `name` of its first run without an exception
JustRan(name) ==
    /\ pass[1] = 1
    /\ ran[1] # <<>>
    /\ Last(ran[1]) = name
    /\ failedAt[1] = ""

Anchors(doc) == {n \in InDoc(doc) : IsElement(doc, n) /\ doc[n].tag = "a"}

Images(doc) == {n \in InDoc(doc) : IsElement(doc, n) /\ doc[n].tag = "img"}

SiteOrigins == {SubSeq(HttpsSite, 1, Len(HttpsSite) - 1), SubSeq(HttpSite, 1, Len(HttpSite) - 1)}

\* an href percent-decoded, a leading origin of the site dropped
Decoded(value) ==
    LET u == Unquote(value)
    IN  IF \E o \in SiteOrigins : StartsWith(u, o)
        THEN Drop(u, Len(CHOOSE o \in SiteOrigins : StartsWith(u, o)))
        ELSE u

\* /index.php/<title>, the title not empty
IsPageLink(s) == StartsWith(s, IndexPhp) /\ Len(s) > Len(IndexPhp)

\* where the explicit fragment of a page link starts: the first '#' that has
\* a title before it and a fragment after it; 0 when there is none
FragmentMark(s) ==
    LET rest == Drop(s, Len(IndexPhp))
        marks == {i \in 2..(Len(rest) - 1) : rest[i] = "#"}
    IN  IF marks = {} THEN 0 ELSE Min(marks)

LinkTitle(s) ==
    LET rest == Drop(s, Len(IndexPhp))
    IN  IF FragmentMark(s) = 0 THEN rest ELSE Take(rest, FragmentMark(s) - 1)

ExplicitFragment(s) ==
    IF FragmentMark(s) = 0 THEN <<>> ELSE Drop(Drop(s, Len(IndexPhp)), FragmentMark(s))

BeforeHash(s) ==
    IF Positions(s, "#") = {} THEN s ELSE Take(s, Min(Positions(s, "#")) - 1)

AfterHash(s) ==
    IF Positions(s, "#") = {} THEN <<>> ELSE Drop(s, Min(Positions(s, "#")))

Underscored(s) == [i \in 1..Len(s) |-> IF s[i] = " " THEN "_" ELSE s[i]]

\* the href C1 promises for a page link s
PromisedHref(s, relbase) ==
    LET target == resolve_redirect(LinkTitle(s))
        F == IF ExplicitFragment(s) # <<>> THEN ExplicitFragment(s)
             ELSE Underscored(AfterHash(target))
    IN  get_local_filename(BeforeHash(target), relbase)
          \o (IF F # <<>> THEN <<"#">> \o F ELSE <<>>)

C7_OtherLinksUntouched ==
    JustRan("update_links") =>
        /\ \A n \in Anchors(Before) :
              (Before[n].href = None \/ ~IsPageLink(Decoded(Before[n].href))) =>
                  Cur[n].href = Before[n].href
        /\ \A n \in Images(Before) :
              (Before[n].src = None \/ ~StartsWith(Before[n].src, ImagesPrefix)) =>
                  Cur[n].src = Before[n].src

-----------------------------------------------------------------------------
(* Stylesheets and errors                                                  *)

\* call 1 has completed the five steps of its first run
Transformed == Len(ran[1]) >= 5 /\ failedAt[1] = ""

\* C2: when the parsed document has a stylesheet link under head, then after
\* the five steps head holds exactly one stylesheet link, the one that came
\* first, its href is relbase joined with 'ArchWikiOffline.css', and the
\* other stylesheet links are out of the document.
C2_OneLocalStylesheet ==
    (Transformed /\ StylesheetLinks(orig[1]) # <<>>) =>
        LET links == StylesheetLinks(orig[1])
        IN  /\ StylesheetLinks(Cur) = <<links[1]>>
            /\ Cur[links[1]].href = PathJoin(OwnRelbase(1), CssName)
            /\ \A i \in 2..Len(links) : links[i] \notin InDoc(Cur)

\* a page with several stylesheet links has been written
C2_Witness ==
    /\ pc[1] = "done"
    /\ Len(StylesheetLinks(orig[1])) >= 2
    /\ Len(StylesheetLinks(Cur)) = 1

\* C5: a document without stylesheet link under head ends optimize in
\* replace_css_links with an exception; update_links and fix_footer never
\* start, no directory is made and nothing is written.
C5_NoStylesheetFails ==
    StylesheetLinks(orig[1]) = <<>> =>
        /\ pc[1] \in {"idle", "parse", "strip_page", "fix_layout", "replace_css_links", "failed"}
        /\ pc[1] = "failed" =>
              /\ failedAt[1] = "replace_css_links"
              /\ ran[1] = <<"strip_page", "fix_layout", "replace_css_links">>
        /\ dirs = {}
        /\ files = <<>>

\* the call on a page without stylesheet link has ended with the exception
C5_Witness ==
    /\ StylesheetLinks(orig[1]) = <<>>
    /\ pc[1] = "failed"
    /\ failedAt[1] = "replace_css_links"

-----------------------------------------------------------------------------
(* strip_page                                                              *)

Chrome(doc) == {n \in InDoc(doc) : IsElement(doc, n) /\ doc[n].id \in ChromeIds}

\* the nodes at and below the nodes of S
Under(doc, S) == UNION {Subtree(doc, e) : e \in S}

StripDone == ran[1] # <<>> /\ failedAt[1] # "strip_page"

Languages(doc) == HasId(doc, "p-lang")

BodyContent(doc) == HasId(doc, "bodyContent")

\* C8 as claimed: after strip_page, and from then on, no element with a
\* chrome id is in the document and neither is any node that was below one;
\* strip_page raises nothing.
C8_ChromeSubtreesGone ==
    /\ failedAt[1] # "strip_page"
    /\ StripDone =>
          /\ Chrome(Cur) = {}
          /\ Under(orig[1], Chrome(orig[1])) \cap InDoc(Cur) = {}

\* C8 as amended: ... neither is any node that was below one, but for the
\* language box and what it holds, which strip_page moved into #bodyContent
\* beforehand when both were there.
C8_ChromeGoneButLanguages ==
    /\ failedAt[1] # "strip_page"
    /\ StripDone =>
          /\ Chrome(Cur) = {}
          /\ Under(orig[1], Chrome(orig[1])) \cap InDoc(Cur) \subseteq
                IF Languages(orig[1]) # <<>> /\ BodyContent(orig[1]) # <<>>
                THEN Subtree(orig[1], Languages(orig[1])[1])
                ELSE {}

\* strip_page has removed nested chrome elements and kept the language box
\* that was inside one
C8_Witness ==
    /\ JustRan("strip_page")
    /\ \E e \in Chrome(Before) : \E f \in Chrome(Before) : f # e /\ f \in Subtree(Before, e)
    /\ Languages(Before) # <<>>
    /\ Languages(Before)[1] \in Under(Before, Chrome(Before))
    /\ Languages(Before)[1] \in InDoc(Cur)

\* what strip_page is to remove: chrome elements, comments, scripts
Unwanted(doc) ==
    {n \in InDoc(doc) : \/ doc[n].kind = "comment"
                        \/ doc[n].id \in ChromeIds
                        \/ doc[n].tag = "script"}

\* the language box and what it holds, when strip_page moves it
Relocated(doc) ==
    IF Languages(doc) # <<>> /\ BodyContent(doc) # <<>>
    THEN Subtree(doc, Languages(doc)[1])
    ELSE {}

\* C9: strip_page removes only the chrome elements with their subtrees, the
\* comments and the scripts: every other node outside those subtrees (the
\* relocated language box aside) is in the document afterwards under the
\* parent it had, and so is every text that follows a node inside a parent
\* that is outside those subtrees.
C9_NothingElseRemoved ==
    JustRan("strip_page") =>
        LET gone == Under(Before, Unwanted(Before))
            moved == Relocated(Before)
        IN  /\ \A n \in InDoc(Before) \ (gone \cup moved) :
                  /\ n \in InDoc(Cur)
                  /\ Parent(Cur, n) = Parent(Before, n)
            /\ \A n \in InDoc(Before) \ ({Root} \cup moved) :
                  (Before[n].tail # "" /\ Parent(Before, n) \notin gone) =>
                      (n \in InDoc(Cur) /\ Cur[n].tail = Before[n].tail)

\* C10 as claimed: with a #p-lang and a #bodyContent in the document,
\* after strip_page the language box is in the document as first child of
\* #bodyContent; with one of them missing nothing is moved; no exception.
C10_LanguagesFirstInBody ==
    /\ failedAt[1] # "strip_page"
    /\ JustRan("strip_page") =>
          LET pl == Languages(Before)
              bc == BodyContent(Before)
          IN  IF pl # <<>> /\ bc # <<>>
              THEN /\ pl[1] \in InDoc(Cur)
                   /\ Cur[bc[1]].kids # <<>>
                   /\ Cur[bc[1]].kids[1] = pl[1]
              ELSE pl # <<>> => Parent(Cur, pl[1]) = Parent(Before, pl[1])

\* C10 as amended: ... provided #bodyContent is not inside a chrome element
\* (it is then deleted with the language box in it).
C10_LanguagesFirstInKeptBody ==
    /\ failedAt[1] # "strip_page"
    /\ JustRan("strip_page") =>
          LET pl == Languages(Before)
              bc == BodyContent(Before)
          IN  IF pl # <<>> /\ bc # <<>>
              THEN bc[1] \notin Under(Before, Chrome(Before)) =>
                      /\ pl[1] \in InDoc(Cur)
                      /\ bc[1] \in InDoc(Cur)
                      /\ Cur[bc[1]].kids # <<>>
                      /\ Cur[bc[1]].kids[1] = pl[1]
              ELSE pl # <<>> => Parent(Cur, pl[1]) = Parent(Before, pl[1])

\* the language box sat in a chrome element and is now first in #bodyContent
C10_Witness ==
    /\ JustRan("strip_page")
    /\ Languages(Before) # <<>>
    /\ BodyContent(Before) # <<>>
    /\ Languages(Before)[1] \in Under(Before, Chrome(Before))
    /\ Parent(Before, Languages(Before)[1]) # BodyContent(Before)[1]
    /\ Cur[BodyContent(Before)[1]].kids[1] = Languages(Before)[1]
    /\ Len(Cur[BodyContent(Before)[1]].kids) >= 2

-----------------------------------------------------------------------------
(* fix_footer                                                              *)

PrintFooters(doc) ==
    Select(doc, {n \in NodeIds(doc) : doc[n].tag = "div" /\ "printfooter" \in doc[n].class})

FooterInfo(doc) == HasId(doc, "footer-info")

\* C6 as claimed: with a div.printfooter and a #footer-info in the
\* document, after fix_footer the former print footer is an li without class,
\* the first child of the list, and the list's fourth child is a br, however
\* many children the list had.
C6_BreakIsFourthChild ==
    (JustRan("fix_footer") /\ PrintFooters(Before) # <<>> /\ FooterInfo(Before) # <<>>) =>
        LET pf == PrintFooters(Before)[1]
            kids == Cur[FooterInfo(Before)[1]].kids
        IN  /\ Cur[pf].tag = "li"
            /\ Cur[pf].class = {}
            /\ kids[1] = pf
            /\ Len(kids) >= 4
            /\ Cur[kids[4]].tag = "br"

\* C6 as amended: ... the first child of the list, and a new br is the
\* list's fourth child when the list had two or more other children, else
\* its last child.
C6_BreakFourthOrLast ==
    (JustRan("fix_footer") /\ PrintFooters(Before) # <<>> /\ FooterInfo(Before) # <<>>) =>
        LET pf == PrintFooters(Before)[1]
            others == Without(Before[FooterInfo(Before)[1]].kids, pf)
            kids == Cur[FooterInfo(Before)[1]].kids
            at == IF Len(others) >= 2 THEN 4 ELSE Len(others) + 2
        IN  /\ Cur[pf].tag = "li"
            /\ Cur[pf].class = {}
            /\ kids[1] = pf
            /\ Len(kids) = Len(others) + 2
            /\ Cur[kids[at]].tag = "br"
            /\ kids[at] \notin NodeIds(Before)
            /\ \A i \in 1..Len(kids) : i # at => Cur[kids[i]].tag # "br"

\* the print footer has been moved into a list that had three other children
C6_Witness ==
    /\ JustRan("fix_footer")
    /\ PrintFooters(Before) # <<>>
    /\ FooterInfo(Before) # <<>>
    /\ Parent(Before, PrintFooters(Before)[1]) # FooterInfo(Before)[1]
    /\ Len(Before[FooterInfo(Before)[1]].kids) >= 3
    /\ Cur[FooterInfo(Before)[1]].kids[1] = PrintFooters(Before)[1]

-----------------------------------------------------------------------------
(* A second run, and two calls at once                                     *)

\* C4: the five steps run a second time over the tree they have transformed
\* raise nothing and change nothing: no node, attribute, href or src differs.
C4_SecondRunChangesNothing ==
    pass[1] = 2 => (heap[1] = first[1] /\ failedAt[1] = "")

\* the second run has ended on a page whose first run rewrote a stylesheet
\* link and a page link and moved a print footer
C4_Witness ==
    /\ pass[1] = 2
    /\ pc[1] = "done"
    /\ Len(ran[1]) = 10
    /\ Len(first[1]) > Len(orig[1])
    /\ \E n \in Anchors(first[1]) : first[1][n].href # orig[1][n].href
    /\ StylesheetLinks(first[1]) # StylesheetLinks(orig[1])

\* C3: two calls on one Optimizer share nothing: a tree is changed by its
\* own call only, every href and src written into it is computed from the
\* relative base of its own output file, and the file of a call holds its
\* own tree.
C3_CallsShareNothing ==
    \A d \in Calls :
        /\ writers[d] \subseteq {d}
        /\ \A n \in InDoc(heap[d]) \cap NodeIds(orig[d]) :
              /\ (heap[d][n].rel = "stylesheet" /\ heap[d][n].href # orig[d][n].href) =>
                    heap[d][n].href = PathJoin(OwnRelbase(d), CssName)
              /\ (heap[d][n].tag = "a" /\ heap[d][n].href # orig[d][n].href) =>
                    heap[d][n].href = RewriteHref(orig[d][n].href, OwnRelbase(d))
              /\ (heap[d][n].tag = "img" /\ heap[d][n].src # orig[d][n].src) =>
                    heap[d][n].src = RewriteSrc(orig[d][n].src, OwnRelbase(d))
        /\ (pc[d] = "done" /\ fout[d] \in DOMAIN files) =>
              files[fout[d]] = Serialize(heap[d], Root)

\* one thread, every page of Init and of InitLinks
InitAll == Init \/ InitLinks

SpecAll == InitAll /\ [][Next]_vars

====
